---- MODULE Spec2Model ----
(***************************************************************************)
(* Model of the textbook-chatbot retrieval backend:                        *)
(*   Backend/embeddings/llm_answer.py       answer synthesis with failover *)
(*   Backend/embeddings/embedding_indexer.py chunk validation, index build *)
(*   Backend/embeddings/search_faiss.py     collection loading and search  *)
(*                                                                         *)
(* A text is a sequence of one-character strings.  Python's None is the    *)
(* record None; a Python str value s is Str(s).                            *)
(***************************************************************************)
EXTENDS Integers, Sequences, FiniteSets, TLC

\* ------------------------------------------------------------------------
\* Bounds of the model
\* ------------------------------------------------------------------------
MaxArgs == 3

MaxRawChunks == 2

MaxChunks == 2

MaxTopK == 3

MaxEmbedChunks == 3

MaxBatchSize == 3

MaxThreads == 2

\* ------------------------------------------------------------------------
\* State
\* ------------------------------------------------------------------------
\* llm_answer.py, one request
VARIABLES
    spc,            \* position of llm_answer.main
    argv,           \* sys.argv[1:]
    user_query,     \* main: user_query
    chunks,         \* main: chunks
    answer,         \* main: answer
    api_used,       \* main: api_used ("None" is Python's None)
    error_details,  \* main: error_details
    calls,          \* provider call events in the order they happen
    stdout,         \* objects printed by main, in order
    exit_code       \* process exit status (-1 while running)

\* embedding_indexer.validate_chunks, one call
VARIABLES
    vpc,            \* "input" before validate_chunks runs, "output" after
    vin,            \* validate_chunks: chunks
    vout            \* validate_chunks: valid_chunks and skipped_count

\* the files of one collection, and the indexer and searcher processes that
\* write and read them (one process runs at a time)
VARIABLES
    disk,           \* the collection's files: index, pkl, json, config
    ipc,            \* position of embedding_indexer.main
    index_type,     \* args.index_type
    batch_size,     \* args.batch_size
    valid_chunks,   \* main: valid_chunks
    embeddings,     \* main: embeddings
    index,          \* main: index
    metadata_mapping, \* main: metadata_mapping
    iexit,          \* the indexer's exit status (-1 while running)
    searcher,       \* the MultiTextbookSearcher object of the searcher process
    last            \* the last call of searcher.search and its outcome

\* one command on an indices directory (search_faiss.py)
VARIABLES
    rdir,           \* the indices directory: its collections' files
    rpc,            \* "start" before the command runs, "done" after
    rout            \* what the command did: its output and exit status

\* one formatting of two distances as scores
VARIABLES
    fpc,            \* "input" before the scores are computed, "output" after
    fin,            \* the two distances
    fout            \* the two scores reported for them

\* embedding_indexer.generate_embeddings, one call
VARIABLES
    epc,            \* "input" before generate_embeddings runs, "output" after
    ein,            \* generate_embeddings: chunks and batch_size
    eout            \* what the call raised, or the rows it returned

\* searches running at the same time on one MultiTextbookSearcher object
VARIABLES
    shared,         \* the searcher object the threads share
    threads         \* of each thread: its position in search and its locals

synthVars == <<spc, argv, user_query, chunks, answer, api_used, error_details,
               calls, stdout, exit_code>>

validateVars == <<vpc, vin, vout>>

indexerVars == <<ipc, index_type, batch_size, valid_chunks, embeddings, index,
                 metadata_mapping, iexit>>

searcherVars == <<searcher, last>>

pipelineVars == <<disk, indexerVars, searcherVars>>

registryVars == <<rdir, rpc, rout>>

scoreVars == <<fpc, fin, fout>>

embedVars == <<epc, ein, eout>>

threadVars == <<shared, threads>>

vars == <<synthVars, validateVars, pipelineVars, registryVars, scoreVars, embedVars,
          threadVars>>

\* ------------------------------------------------------------------------
\* Python values and string helpers
\* ------------------------------------------------------------------------
None == [tag |-> "None"]

Str(s) == [tag |-> "str", v |-> s]

Whitespace == {" ", "\t", "\n"}

RECURSIVE lstrip(_)
lstrip(s) ==
    IF s = <<>> THEN <<>>
    ELSE IF Head(s) \in Whitespace THEN lstrip(Tail(s)) ELSE s

RECURSIVE rstrip(_)
rstrip(s) ==
    IF s = <<>> THEN <<>>
    ELSE IF s[Len(s)] \in Whitespace THEN rstrip(SubSeq(s, 1, Len(s) - 1)) ELSE s

\* str.strip()
strip(s) == rstrip(lstrip(s))

\* Python truthiness of an Optional[str]: None and "" are falsy
Truthy(x) == x.tag = "str" /\ x.v # <<>>

\* d.get(key, default) on a dict
dict_get(d, key, default) ==
    IF key \in DOMAIN d THEN d[key] ELSE default

RECURSIVE SeqsUpTo(_, _)
SeqsUpTo(S, n) ==
    IF n = 0 THEN {<<>>}
    ELSE LET shorter == SeqsUpTo(S, n - 1)
         IN  shorter \cup {Append(s, x) : s \in {t \in shorter : Len(t) = n - 1}, x \in S}

\* [chunk.strip() for chunk in s if chunk.strip()]
RECURSIVE SelectStripped(_)
SelectStripped(s) ==
    IF s = <<>> THEN <<>>
    ELSE IF strip(Head(s)) # <<>>
         THEN <<strip(Head(s))>> \o SelectStripped(Tail(s))
         ELSE SelectStripped(Tail(s))

\* ------------------------------------------------------------------------
\* llm_answer.py
\* ------------------------------------------------------------------------
\* command-line argument texts
ArgTexts == {<<>>, <<" ">>, <<"q">>, <<" ", "q", " ">>}

\* raw `content` texts a provider may put in a 2xx, well-formed payload
ContentTexts == {<<>>, <<" ">>, <<"a">>, <<" ", "a">>}

\* ways requests.post / raise_for_status / the payload lookup can raise
ErrorKinds == {"ConnectionError", "Timeout", "HTTPError", "KeyError"}

TOGETHER == "together.ai"

OPENROUTER == "openrouter"

\* call_together_ai: except Exception as e: raise Exception(f"Together.ai API error: ...")
call_together_ai_error(kind) == <<"Together.ai API error", kind>>

\* call_openrouter: except Exception as e: raise Exception(f"OpenRouter API error: ...")
call_openrouter_error(kind) == <<"OpenRouter API error", kind>>

\* a provider's return value: data['choices'][0]['message']['content'].strip()
provider_return(content) == Str(strip(content))

InsufficientArguments(n) ==
    [error |-> "Insufficient arguments", received_args |-> n]

EmptyQuery == [error |-> "Empty query provided"]

NoValidChunks == [error |-> "No valid content chunks provided"]

AllFailed(details, q, cs) ==
    [error |-> "All LLM APIs failed",
     details |-> details,
     query |-> q,
     chunks_provided |-> Len(cs)]

model_used(api) ==
    IF api = OPENROUTER THEN "mistralai/mistral-7b-instruct"
    ELSE "mistralai/Mistral-7B-Instruct-v0.1"

SuccessResponse(ans, api, q, cs) ==
    [answer |-> ans.v,
     api_used |-> api,
     model_used |-> model_used(api),
     chunks_processed |-> Len(cs),
     query |-> q,
     status |-> "success"]

SynthIdle ==
    /\ spc = "start"
    /\ argv = <<>>
    /\ user_query = <<>>
    /\ chunks = <<>>
    /\ answer = None
    /\ api_used = "None"
    /\ error_details = <<>>
    /\ calls = <<>>
    /\ stdout = <<>>
    /\ exit_code = -1

SynthInit ==
    /\ spc = "start"
    /\ argv \in SeqsUpTo(ArgTexts, MaxArgs)
    /\ user_query = <<>>
    /\ chunks = <<>>
    /\ answer = None
    /\ api_used = "None"
    /\ error_details = <<>>
    /\ calls = <<>>
    /\ stdout = <<>>
    /\ exit_code = -1

\* Fail with a fault: the process exits without printing its error object
FailSilently(result) ==
    /\ stdout' = stdout
    /\ exit_code' = 1
    /\ spc' = "done"

\* print(json.dumps(result)); sys.exit(1)
\* (SystemExit is not an Exception: the handler of line 185 does not see it)
Fail(result) ==
    /\ stdout' = Append(stdout, result)
    /\ exit_code' = 1
    /\ spc' = "done"

\* RecordFailure with a fault: the newest error is put first
RecordFailureFirst(details, entry) == <<entry>> \o details

\* error_details.append(...)
RecordFailure(details, entry) == Append(details, entry)

\* lines 163-183: the tail of main once no provider is left to try
Finish(ans, api, details) ==
    IF ~Truthy(ans)
    THEN Fail(AllFailed(details, user_query, chunks))
    ELSE /\ stdout' = Append(stdout, SuccessResponse(ans, api, user_query, chunks))
         /\ exit_code' = 0
         /\ spc' = "done"

\* AfterTogether with a fault: a failed Together.ai attempt is retried
AfterTogetherRetry(ans, api, details, log) ==
    IF ~Truthy(ans)
    THEN /\ calls' = Append(log, <<"call", TOGETHER>>)
         /\ spc' = "together"
         /\ UNCHANGED <<stdout, exit_code>>
    ELSE /\ calls' = log
         /\ Finish(ans, api, details)

\* lines 155-158: after the Together.ai attempt; log is the call log so far
AfterTogether(ans, api, details, log) ==
    IF ~Truthy(ans)
    THEN /\ calls' = Append(log, <<"call", OPENROUTER>>)
         /\ spc' = "openrouter"
         /\ UNCHANGED <<stdout, exit_code>>
    ELSE /\ calls' = log
         /\ Finish(ans, api, details)

\* main with a fault: the chunks are not checked before the first request
MainStartUncheckedChunks ==
    /\ spc = "start"
    /\ IF Len(argv) < 2
       THEN /\ Fail(InsufficientArguments(Len(argv)))
            /\ UNCHANGED <<user_query, chunks, calls>>
       ELSE LET q  == strip(argv[1])
                cs == SelectStripped(Tail(argv))
            IN  /\ user_query' = q
                /\ IF q = <<>>
                   THEN /\ Fail(EmptyQuery)
                        /\ UNCHANGED <<chunks, calls>>
                   ELSE /\ chunks' = cs
                        /\ calls' = <<<<"call", TOGETHER>>>>
                        /\ spc' = "together"
                        /\ UNCHANGED <<stdout, exit_code>>
    /\ UNCHANGED <<argv, answer, api_used, error_details>>
    /\ UNCHANGED <<validateVars, pipelineVars, registryVars, scoreVars, embedVars, threadVars>>

\* lines 121-150: argument checks, then the Together.ai request is sent
MainStart ==
    /\ spc = "start"
    /\ IF Len(argv) < 2
       THEN /\ Fail(InsufficientArguments(Len(argv)))
            /\ UNCHANGED <<user_query, chunks, calls>>
       ELSE LET q  == strip(argv[1])
                cs == SelectStripped(Tail(argv))
            IN  /\ user_query' = q
                /\ IF q = <<>>
                   THEN /\ Fail(EmptyQuery)
                        /\ UNCHANGED <<chunks, calls>>
                   ELSE /\ chunks' = cs
                        /\ IF cs = <<>>
                           THEN /\ Fail(NoValidChunks)
                                /\ UNCHANGED calls
                           ELSE /\ calls' = <<<<"call", TOGETHER>>>>
                                /\ spc' = "together"
                                /\ UNCHANGED <<stdout, exit_code>>
    /\ UNCHANGED <<argv, answer, api_used, error_details>>
    /\ UNCHANGED <<validateVars, pipelineVars, registryVars, scoreVars, embedVars, threadVars>>

\* lines 150-151, 156: call_together_ai returns a text
TogetherReturns ==
    /\ spc = "together"
    /\ \E content \in ContentTexts :
         /\ answer' = provider_return(content)
         /\ api_used' = TOGETHER
         /\ AfterTogether(answer', api_used', error_details,
                          Append(calls, <<"return", TOGETHER>>))
    /\ UNCHANGED <<argv, user_query, chunks, error_details>>
    /\ UNCHANGED <<validateVars, pipelineVars, registryVars, scoreVars, embedVars, threadVars>>

\* lines 152-153, 156: call_together_ai raises
TogetherRaises ==
    /\ spc = "together"
    /\ \E kind \in ErrorKinds :
         /\ error_details' = RecordFailure(error_details,
                <<"Together.ai failed", call_together_ai_error(kind)>>)
         /\ AfterTogether(answer, api_used, error_details',
                          Append(calls, <<"raise", TOGETHER>>))
    /\ UNCHANGED <<argv, user_query, chunks, answer, api_used>>
    /\ UNCHANGED <<validateVars, pipelineVars, registryVars, scoreVars, embedVars, threadVars>>

\* lines 158-159, 163: call_openrouter returns a text
OpenRouterReturns ==
    /\ spc = "openrouter"
    /\ \E content \in ContentTexts :
         /\ answer' = provider_return(content)
         /\ api_used' = OPENROUTER
         /\ calls' = Append(calls, <<"return", OPENROUTER>>)
         /\ Finish(answer', api_used', error_details)
    /\ UNCHANGED <<argv, user_query, chunks, error_details>>
    /\ UNCHANGED <<validateVars, pipelineVars, registryVars, scoreVars, embedVars, threadVars>>

\* lines 160-161, 163: call_openrouter raises
OpenRouterRaises ==
    /\ spc = "openrouter"
    /\ \E kind \in ErrorKinds :
         /\ error_details' = RecordFailure(error_details,
                <<"OpenRouter failed", call_openrouter_error(kind)>>)
         /\ calls' = Append(calls, <<"raise", OPENROUTER>>)
         /\ Finish(answer, api_used, error_details')
    /\ UNCHANGED <<argv, user_query, chunks, answer, api_used>>
    /\ UNCHANGED <<validateVars, pipelineVars, registryVars, scoreVars, embedVars, threadVars>>

SynthNext ==
    \/ MainStart
    \/ TogetherReturns
    \/ TogetherRaises
    \/ OpenRouterReturns
    \/ OpenRouterRaises

\* ------------------------------------------------------------------------
\* embedding_indexer.py: chunk records and validate_chunks
\* ------------------------------------------------------------------------
\* A JSON value is a tagged record: Str(s), Num(n), None, or Dict(d) with d a
\* function from key names to JSON values.
Num(n) == [tag |-> "int", n |-> n]

Dict(d) == [tag |-> "dict", d |-> d]

Rep(c, n) == [i \in 1..n |-> c]

\* texts of the chunk records
TextBlank == Rep(" ", 3)

TextNine == Rep("a", 9)

TextPaddedNine == <<" ">> \o Rep("a", 9) \o <<"\n">>

TextTen == Rep("a", 10)

TextGaps == <<"a">> \o Rep(" ", 8) \o <<"b">>

TextPaddedOk == <<" ">> \o Rep("b", 5) \o <<" ">> \o Rep("c", 5) \o <<" ">>

IdC1 == <<"c", "1">>

IdC2 == <<"c", "2">>

\* the elements a chunks JSON array may hold
RawChunks ==
    { Str(TextTen),
      Dict([text |-> Str(TextTen)]),
      Dict([id |-> Str(<<>>), text |-> Str(TextTen)]),
      Dict([id |-> None, text |-> Str(TextPaddedOk)]),
      Dict([id |-> Str(IdC1)]),
      Dict([id |-> Str(IdC1), text |-> Num(7)]),
      Dict([id |-> Str(IdC1), text |-> None]),
      Dict([id |-> Str(IdC1), text |-> Str(<<>>)]),
      Dict([id |-> Str(IdC1), text |-> Str(TextBlank)]),
      Dict([id |-> Str(IdC1), text |-> Str(TextNine)]),
      Dict([id |-> Str(IdC1), text |-> Str(TextPaddedNine)]),
      Dict([id |-> Str(IdC1), text |-> Str(TextTen)]),
      Dict([id |-> Str(IdC2), text |-> Str(TextGaps)]),
      Dict([id |-> Num(3), text |-> Str(TextPaddedOk), chapter |-> Str(<<"1">>)]) }

\* the `continue` conditions of the loop body, in order; "" when the chunk is kept
SkipReason(chunk) ==
    IF chunk.tag # "dict" THEN "not a dictionary"
    ELSE IF "id" \notin DOMAIN chunk.d THEN "missing 'id' field"
    ELSE IF "text" \notin DOMAIN chunk.d THEN "missing 'text' field"
    ELSE IF chunk.d.text.tag # "str" THEN "'text' is not a string"
    ELSE IF strip(chunk.d.text.v) = <<>> THEN "empty or whitespace-only text"
    ELSE IF Len(strip(chunk.d.text.v)) < 10 THEN "text too short"
    ELSE ""

RECURSIVE validate_chunks(_)
validate_chunks(cs) ==
    IF cs = <<>> THEN [valid_chunks |-> <<>>, skipped_count |-> 0]
    ELSE LET rest == validate_chunks(SubSeq(cs, 1, Len(cs) - 1))
             chunk == cs[Len(cs)]
         IN  IF SkipReason(chunk) # ""
             THEN [rest EXCEPT !.skipped_count = @ + 1]
             ELSE [rest EXCEPT !.valid_chunks = Append(@, chunk)]

ValidateIdle ==
    /\ vpc = "input"
    /\ vin = <<>>
    /\ vout = [valid_chunks |-> <<>>, skipped_count |-> 0]

ValidateInit ==
    /\ vpc = "input"
    /\ vin \in SeqsUpTo(RawChunks, MaxRawChunks)
    /\ vout = [valid_chunks |-> <<>>, skipped_count |-> 0]

ValidateRun ==
    /\ vpc = "input"
    /\ vout' = validate_chunks(vin)
    /\ vpc' = "output"
    /\ UNCHANGED vin
    /\ UNCHANGED <<synthVars, pipelineVars, registryVars, scoreVars, embedVars, threadVars>>

\* ------------------------------------------------------------------------
\* Vectors.  A float is kept in fixed point: the integer n stands for n/Scale
\* in a vector, and for n/Scale^2 in a distance or an inner product.
\* ------------------------------------------------------------------------
Scale == 10

QueryQ == <<"q">>

QueryR == <<"r">>

\* SentenceTransformer.encode on one text: an opaque, deterministic function
\* from texts to vectors of the model's dimension
Encode(text) ==
    CASE text = TextTen      -> <<30, 40>>
      [] text = TextPaddedOk -> <<0, 10>>
      [] text = TextGaps     -> <<-6, -8>>
      [] text = QueryQ       -> <<6, 8>>
      [] text = QueryR       -> <<0, -10>>
      [] OTHER               -> <<10, 0>>

\* integer square root
ISqrt(n) == CHOOSE r \in 0..n : r * r <= n /\ (r + 1) * (r + 1) > n

\* division rounded to the nearest, for either sign of a
DivRound(a, b) ==
    IF a >= 0 THEN (2 * a + b) \div (2 * b) ELSE -((2 * (-a) + b) \div (2 * b))

Dot(u, v) == LET RECURSIVE S(_)
                 S(i) == IF i = 0 THEN 0 ELSE u[i] * v[i] + S(i - 1)
             IN  S(Len(u))

\* squared Euclidean distance
L2sqr(u, v) == Dot([i \in 1..Len(u) |-> u[i] - v[i]], [i \in 1..Len(u) |-> u[i] - v[i]])

\* faiss.normalize_L2 on one row: divide by the Euclidean norm (a zero row is left alone)
normalize_L2(v) ==
    LET norm == ISqrt(Dot(v, v))
    IN  IF norm = 0 THEN v ELSE [i \in 1..Len(v) |-> DivRound(v[i] * Scale, norm)]

Min(a, b) == IF a < b THEN a ELSE b

\* s[i:i + n] of a list, i zero-based
Slice(s, i, n) == SubSeq(s, i + 1, Min(i + n, Len(s)))

\* ------------------------------------------------------------------------
\* embedding_indexer.py: building the index and the metadata table
\* ------------------------------------------------------------------------
\* model.encode(batch_texts): one row per text, in order
encode_batch(texts) == [i \in 1..Len(texts) |-> Encode(texts[i])]

\* generate_embeddings with a fault: the rows of each batch are put before
\* the rows of the batches encoded earlier
generate_embeddings_newest_first(cs, bs) ==
    LET texts == [i \in 1..Len(cs) |-> cs[i].d.text.v]
        RECURSIVE Batches(_)
        Batches(i) ==
            IF i >= Len(texts) THEN <<>>
            ELSE Batches(i + bs) \o encode_batch(Slice(texts, i, bs))
    IN  Batches(0)

\* generate_embeddings: the rows of the batches texts[i:i + batch_size],
\* i = 0, batch_size, ..., stacked in order (batch_size >= 1), for at least
\* one chunk; np.vstack raises ValueError when there is no batch to stack
generate_embeddings(cs, bs) ==
    LET texts == [i \in 1..Len(cs) |-> cs[i].d.text.v]
        RECURSIVE Batches(_)
        Batches(i) ==
            IF i >= Len(texts) THEN <<>>
            ELSE encode_batch(Slice(texts, i, bs)) \o Batches(i + bs)
    IN  Batches(0)

\* create_faiss_index: IndexFlatL2 / IndexFlatIP holding the rows in order
create_faiss_index(emb, itype) ==
    IF itype = "flat"
    THEN [metric |-> "L2", d |-> Len(emb[1]), xb |-> emb]
    ELSE [metric |-> "IP", d |-> Len(emb[1]),
          xb |-> [i \in 1..Len(emb) |-> normalize_L2(emb[i])]]

\* index.ntotal
ntotal(ix) == Len(ix.xb)

\* len(text.split()): the number of maximal runs of non-whitespace
RECURSIVE word_count(_)
word_count(t) ==
    IF t = <<>> THEN 0
    ELSE word_count(Tail(t))
         + (IF Head(t) \notin Whitespace
               /\ (Len(t) = 1 \/ t[2] \in Whitespace) THEN 1 ELSE 0)

OptionalFields == {"index", "source_file", "method", "sentence_count"}

\* the metadata entry of the chunk at zero-based position i
metadata_entry(i, chunk) ==
    LET base == [faiss_id |-> i,
                 chunk_id |-> chunk.d.id,
                 text |-> chunk.d.text,
                 char_count |-> Len(chunk.d.text.v),
                 word_count |-> word_count(chunk.d.text.v)]
        extra == OptionalFields \cap DOMAIN chunk.d
    IN  [k \in DOMAIN base \cup extra |-> IF k \in extra THEN chunk.d[k] ELSE base[k]]

\* create_metadata_mapping with a fault: one entry per chunk id, a later chunk with
\* the id of an earlier one is dropped
create_metadata_mapping_by_id(cs) ==
    LET RECURSIVE Keep(_)
        Keep(n) ==
            IF n = 0 THEN <<>>
            ELSE IF \E j \in 1..(n - 1) : cs[j].d.id = cs[n].d.id
                 THEN Keep(n - 1)
                 ELSE Append(Keep(n - 1), cs[n])
        kept == Keep(Len(cs))
    IN  [i \in 1..Len(kept) |-> metadata_entry(i - 1, kept[i])]

\* create_metadata_mapping
create_metadata_mapping(cs) == [i \in 1..Len(cs) |-> metadata_entry(i - 1, cs[i])]

\* the chunk records of the indexer's input file
ChunkA == Dict([id |-> Str(IdC1), text |-> Str(TextTen),
                source_file |-> Str(<<"f">>), chapter |-> Str(<<"1">>)])

ChunkB == Dict([id |-> Str(IdC2), text |-> Str(TextPaddedOk)])

ChunkX == Dict([id |-> Str(IdC1), text |-> Str(TextNine)])

InputChunks == {ChunkA, ChunkB, ChunkX}

\* --index_type choices
IndexTypes == {"flat", "ip"}

\* --batch_size values
BatchSizes == {1, 2}

\* files: absent, present with a content that parses, present with bytes
\* that do not parse (json.load / faiss.read_index / pickle.load raise), or
\* a pickle of something that is not a list
Absent == [tag |-> "absent"]

File(content) == [tag |-> "file", content |-> content]

Garbled == [tag |-> "garbled"]

NonList == [tag |-> "nonlist"]

\* a JSON document that parses to something other than an object
JsonArray == [tag |-> "list"]

DEFAULT_MODEL == "all-MiniLM-L6-v2"

\* another model name a caller may pass with --model
OTHER_MODEL == "all-mpnet-base-v2"

RequestedModels == {DEFAULT_MODEL, OTHER_MODEL}

\* <textbook_id>_config.json, written by hand: the indexer writes none
ConfigFull == [textbook_name |-> Str(<<"M", "L">>), model_name |-> DEFAULT_MODEL,
               total_chunks |-> Num(2)]

NoSearcher == [tag |-> "none"]

NoSearch == [called |-> FALSE]

\* --textbook / --output_prefix: intro_ml
TEXTBOOK_ID == <<"i", "n", "t", "r", "o", "_", "m", "l">>

IndexerIdle ==
    /\ ipc = "idle"
    /\ index_type = "flat"
    /\ batch_size = 1
    /\ valid_chunks = <<>>
    /\ embeddings = <<>>
    /\ index = None
    /\ metadata_mapping = <<>>
    /\ iexit = -1

\* a collection that holds zero entries: an index without vectors
\* (faiss.IndexFlatL2(d) with nothing added) and the pickle of an empty list
EmptyIndex == [metric |-> "L2", d |-> 2, xb |-> <<>>]

EmptyCollection ==
    [index |-> File(EmptyIndex), pkl |-> File(<<>>), json |-> Absent,
     config |-> File(Dict(ConfigFull))]

\* the output location before the first run: nothing but perhaps the config
\* written by hand, or a collection of zero entries made with other tools
PipelineInit ==
    /\ disk \in [index : {Absent}, pkl : {Absent}, json : {Absent},
                 config : {Absent, File(Dict(ConfigFull))}] \cup {EmptyCollection}
    /\ IndexerIdle
    /\ searcher = NoSearcher
    /\ last = NoSearch

\* main with a fault: the run goes on to the model and the embeddings with
\* whatever validation left
IndexerStartUnchecked ==
    /\ ipc = "idle"
    /\ searcher = NoSearcher
    /\ \E cs \in SeqsUpTo(InputChunks, MaxChunks), t \in IndexTypes, b \in BatchSizes :
         /\ index_type' = t
         /\ batch_size' = b
         /\ valid_chunks' = validate_chunks(cs).valid_chunks
    /\ ipc' = "validated"
    /\ iexit' = -1
    /\ UNCHANGED <<embeddings, index, metadata_mapping, disk, searcher, last>>
    /\ UNCHANGED <<synthVars, validateVars, registryVars, scoreVars, embedVars, threadVars>>

\* lines 289-294: the chunks file is loaded and validated; with no valid
\* chunk main returns 1
IndexerStart ==
    /\ ipc = "idle"
    /\ searcher = NoSearcher
    /\ \E cs \in SeqsUpTo(InputChunks, MaxChunks), t \in IndexTypes, b \in BatchSizes :
         /\ index_type' = t
         /\ batch_size' = b
         /\ valid_chunks' = validate_chunks(cs).valid_chunks
         /\ IF valid_chunks' = <<>>
            THEN ipc' = "exited" /\ iexit' = 1
            ELSE ipc' = "validated" /\ iexit' = -1
    /\ UNCHANGED <<embeddings, index, metadata_mapping, disk, searcher, last>>
    /\ UNCHANGED <<synthVars, validateVars, registryVars, scoreVars, embedVars, threadVars>>

\* lines 43-60, 289, 333-335: the chunks file is missing or is no JSON array
IndexerLoadRaises ==
    /\ ipc = "idle"
    /\ searcher = NoSearcher
    /\ \E t \in IndexTypes, b \in BatchSizes :
         /\ index_type' = t
         /\ batch_size' = b
    /\ ipc' = "exited"
    /\ iexit' = 1
    /\ UNCHANGED <<valid_chunks, embeddings, index, metadata_mapping, disk, searcher, last>>
    /\ UNCHANGED <<synthVars, validateVars, registryVars, scoreVars, embedVars, threadVars>>

\* lines 296-306: model, embeddings, index and metadata mapping, in memory.
\* faiss.normalize_L2 works in place: with --index_type ip the rows of
\* `embeddings` are unit rows afterwards.
IndexerBuild ==
    /\ ipc = "validated"
    /\ valid_chunks # <<>>
    /\ LET emb == generate_embeddings(valid_chunks, batch_size)
       IN  /\ index' = create_faiss_index(emb, index_type)
           /\ embeddings' = index'.xb
    /\ metadata_mapping' = create_metadata_mapping(valid_chunks)
    /\ ipc' = "built"
    /\ UNCHANGED <<index_type, batch_size, valid_chunks, iexit, disk, searcher, last>>
    /\ UNCHANGED <<synthVars, validateVars, registryVars, scoreVars, embedVars, threadVars>>

\* lines 296-300, 333-335: loading the model or encoding raises (without a
\* chunk, np.vstack at 155 does)
IndexerBuildRaises ==
    /\ ipc = "validated"
    /\ ipc' = "exited"
    /\ iexit' = 1
    /\ UNCHANGED <<index_type, batch_size, valid_chunks, embeddings, index,
                   metadata_mapping, disk, searcher, last>>
    /\ UNCHANGED <<synthVars, validateVars, registryVars, scoreVars, embedVars, threadVars>>

\* what the disk keeps of the JSON copy, which is for reading by people and
\* which no program reads back: that it was written, not its text
JsonWritten == File("metadata (JSON)")

\* the file a save leaves when it raises after it has opened the file: the
\* part that was written, which does not parse
PartOf(file) == IF file = "json" THEN JsonWritten ELSE Garbled

\* a save raises (lines 213-214, 223-224, 233-234), main returns 1 (333-335).
\* The file is written in place: when the save raises before it has opened
\* the file, the file is as it was; when it raises later, the file holds
\* the part that was written.
SaveRaises(file) ==
    /\ ipc' = "exited"
    /\ iexit' = 1
    /\ \/ UNCHANGED disk
       \/ disk' = [disk EXCEPT ![file] = PartOf(file)]

\* line 314: save_faiss_index
IndexerSaveIndex ==
    /\ ipc = "built"
    /\ \/ /\ disk' = [disk EXCEPT !.index = File(index)]
          /\ ipc' = "saved_index"
          /\ UNCHANGED iexit
       \/ SaveRaises("index")
    /\ UNCHANGED <<index_type, batch_size, valid_chunks, embeddings, index,
                   metadata_mapping, searcher, last>>
    /\ UNCHANGED <<synthVars, validateVars, registryVars, scoreVars, embedVars, threadVars>>

\* line 315: save_metadata_mapping
IndexerSavePickle ==
    /\ ipc = "saved_index"
    /\ \/ /\ disk' = [disk EXCEPT !.pkl = File(metadata_mapping)]
          /\ ipc' = "saved_pkl"
          /\ UNCHANGED iexit
       \/ SaveRaises("pkl")
    /\ UNCHANGED <<index_type, batch_size, valid_chunks, embeddings, index,
                   metadata_mapping, searcher, last>>
    /\ UNCHANGED <<synthVars, validateVars, registryVars, scoreVars, embedVars, threadVars>>

\* lines 316-331: save_metadata_json, the summary, return 0
IndexerSaveJson ==
    /\ ipc = "saved_pkl"
    /\ \/ /\ disk' = [disk EXCEPT !.json = JsonWritten]
          /\ ipc' = "exited"
          /\ iexit' = 0
       \/ SaveRaises("json")
    /\ UNCHANGED <<index_type, batch_size, valid_chunks, embeddings, index,
                   metadata_mapping, searcher, last>>
    /\ UNCHANGED <<synthVars, validateVars, registryVars, scoreVars, embedVars, threadVars>>

\* the indexer process is gone
IndexerExit ==
    /\ ipc = "exited"
    /\ ipc' = "idle"
    /\ index_type' = "flat"
    /\ batch_size' = 1
    /\ valid_chunks' = <<>>
    /\ embeddings' = <<>>
    /\ index' = None
    /\ metadata_mapping' = <<>>
    /\ iexit' = -1
    /\ UNCHANGED <<disk, searcher, last>>
    /\ UNCHANGED <<synthVars, validateVars, registryVars, scoreVars, embedVars, threadVars>>

\* ------------------------------------------------------------------------
\* embedding_indexer.py: one call of generate_embeddings
\* ------------------------------------------------------------------------
ChunkC == Dict([id |-> Str(IdC2), text |-> Str(TextGaps)])

\* chunks whose texts have three different embeddings
EmbedChunks == {ChunkA, ChunkB, ChunkC}

EmbedBatchSizes == 1..MaxBatchSize

NoRows == [raised |-> "not called", rows |-> <<>>]

EmbedIdle ==
    /\ epc = "input"
    /\ ein = [chunks |-> <<>>, batch_size |-> 1]
    /\ eout = NoRows

EmbedInit ==
    /\ epc = "input"
    /\ ein \in [chunks : SeqsUpTo(EmbedChunks, MaxEmbedChunks),
                batch_size : EmbedBatchSizes]
    /\ eout = NoRows

\* generate_embeddings(model, chunks, batch_size): with no chunk the loop
\* at 145 runs zero times and np.vstack([]) (155) raises ValueError
EmbedRun ==
    /\ epc = "input"
    /\ epc' = "output"
    /\ eout' = IF ein.chunks = <<>>
               THEN [raised |-> "ValueError", rows |-> <<>>]
               ELSE [raised |-> "",
                     rows |-> generate_embeddings(ein.chunks, ein.batch_size)]
    /\ UNCHANGED ein
    /\ UNCHANGED <<synthVars, validateVars, pipelineVars, registryVars, scoreVars,
                   threadVars>>

\* ------------------------------------------------------------------------
\* search_faiss.py: MultiTextbookSearcher
\* ------------------------------------------------------------------------
\* the value faiss puts in the distance of a missing neighbour (the largest
\* float32), in fixed point
FLT_MAX == 1000000

\* IndexFlatL2 reports squared distances, IndexFlatIP inner products
Measure(ix, q, i) ==
    IF ix.metric = "L2" THEN L2sqr(q, ix.xb[i + 1]) ELSE Dot(q, ix.xb[i + 1])

\* position i is reported before position j: nearer first under L2, larger
\* inner product first under IP; equal measures in position order
Before(ix, q, i, j) ==
    LET mi == Measure(ix, q, i)
        mj == Measure(ix, q, j)
    IN  IF mi = mj THEN i < j
        ELSE IF ix.metric = "L2" THEN mi < mj ELSE mi > mj

RECURSIVE Ranked(_, _, _)
Ranked(ix, q, S) ==
    IF S = {} THEN <<>>
    ELSE LET b == CHOOSE i \in S : \A j \in S \ {i} : Before(ix, q, i, j)
         IN  <<b>> \o Ranked(ix, q, S \ {b})

\* index.search(x, k) for one query row and k >= 1: k (distance, label)
\* pairs, best first; when the index holds fewer than k rows the rest are
\* label -1 with distance FLT_MAX (L2) or -FLT_MAX (IP)
index_search(ix, q, k) ==
    LET order == Ranked(ix, q, 0..(ntotal(ix) - 1))
    IN  [r \in 1..k |->
            IF r <= Len(order)
            THEN [distance |-> Measure(ix, q, order[r]), idx |-> order[r]]
            ELSE [distance |-> IF ix.metric = "L2" THEN FLT_MAX ELSE -FLT_MAX,
                  idx |-> -1]]

\* self.config.get('textbook_name', self.textbook_id)
textbook_name(s) == dict_get(s.config, "textbook_name", Str(s.textbook_id))

\* self.metadata[idx] for a Python list and an index idx < len (negative
\* indices count from the end)
PyItem(list, idx) == IF idx >= 0 THEN list[idx + 1] ELSE list[Len(list) + idx + 1]

\* lines 275-279: the copy of the entry with the textbook's identity added
result_metadata(s, idx) ==
    LET entry == PyItem(s.metadata, idx)
        added == {"textbook_id", "textbook_name"}
    IN  [k \in DOMAIN entry \cup added |->
            IF k = "textbook_id" THEN Str(s.textbook_id)
            ELSE IF k = "textbook_name" THEN textbook_name(s)
            ELSE entry[k]]

\* lines 272-279: the loop over zip(distances[0], indices[0])
RECURSIVE collect_results(_, _)
collect_results(s, hits) ==
    IF hits = <<>> THEN <<>>
    ELSE LET h == hits[Len(hits)]
             rest == collect_results(s, SubSeq(hits, 1, Len(hits) - 1))
         IN  IF h.idx < Len(s.metadata)
             THEN Append(rest, [distance |-> h.distance,
                                metadata |-> result_metadata(s, h.idx)])
             ELSE rest

Outcome(raised, msg, results, encoded, searched) ==
    [raised |-> raised, msg |-> msg, results |-> results,
     encoded |-> encoded, searched |-> searched]

\* lines 261-284: the body of the try block.  faiss refuses k <= 0 and a
\* query of another dimension; a list index below -len raises IndexError.
search_try(s, query, top_k) ==
    LET q == Encode(strip(query))
    IN  IF top_k <= 0 \/ Len(q) # s.index.d
        THEN Outcome("Exception", "Search failed", <<>>, TRUE, TRUE)
        ELSE LET hits == index_search(s.index, q, top_k)
             IN  IF \E r \in 1..Len(hits) : hits[r].idx < -Len(s.metadata)
                 THEN Outcome("Exception", "Search failed", <<>>, TRUE, TRUE)
                 ELSE Outcome("", "", collect_results(s, hits), TRUE, TRUE)

\* search with a fault: the query is encoded before the arguments are checked
search_encode_first(s, query, top_k) ==
    IF strip(query) = <<>>
    THEN Outcome("ValueError", "Query cannot be empty", <<>>, TRUE, FALSE)
    ELSE IF top_k <= 0
    THEN Outcome("ValueError", "top_k must be positive", <<>>, TRUE, FALSE)
    ELSE search_try(s, query, Min(top_k, Len(s.metadata)))

\* MultiTextbookSearcher.search
search(s, query, top_k) ==
    IF strip(query) = <<>>
    THEN Outcome("ValueError", "Query cannot be empty", <<>>, FALSE, FALSE)
    ELSE IF top_k <= 0
    THEN Outcome("ValueError", "top_k must be positive", <<>>, FALSE, FALSE)
    ELSE search_try(s, query, Min(top_k, Len(s.metadata)))

QueryTexts == {<<>>, <<" ", "\t">>, QueryQ, <<" ">> \o QueryR \o <<" ">>}

TopKs == (-1)..MaxTopK

\* ord(c) of the characters that occur in ids and display names
ord(c) ==
    CASE c = "A" -> 65 [] c = "B" -> 66 [] c = "L" -> 76 [] c = "M" -> 77
      [] c = "_" -> 95 [] c = "c" -> 99 [] c = "d" -> 100 [] c = "f" -> 102
      [] c = "g" -> 103 [] c = "i" -> 105 [] c = "l" -> 108
      [] c = "m" -> 109 [] c = "n" -> 110 [] c = "o" -> 111 [] c = "r" -> 114
      [] c = "t" -> 116 [] c = "u" -> 117 [] c = "y" -> 121

\* a < b on two str: lexicographic by code point
RECURSIVE str_lt(_, _)
str_lt(a, b) ==
    IF b = <<>> THEN FALSE
    ELSE IF a = <<>> THEN TRUE
    ELSE IF Head(a) = Head(b) THEN str_lt(Tail(a), Tail(b))
    ELSE ord(Head(a)) < ord(Head(b))

\* a < b is defined between two str and between two numbers; for any other
\* pair of JSON values (None included) it raises TypeError
Comparable(a, b) ==
    \/ a.tag = "str" /\ b.tag = "str"
    \/ a.tag = "int" /\ b.tag = "int"

py_lt(a, b) == IF a.tag = "str" THEN str_lt(a.v, b.v) ELSE a.n < b.n

\* sorted(textbooks, key=lambda x: x['name']): a stable sort.  With two or
\* more elements every element is compared with another one, and the sort
\* cannot finish without comparing two elements of different kinds when
\* there are any: it raises TypeError exactly when some pair is not comparable.
RECURSIVE stable_sort(_)
stable_sort(l) ==
    IF l = <<>> THEN <<>>
    ELSE LET front == stable_sort(SubSeq(l, 1, Len(l) - 1))
             x == l[Len(l)]
             after == {i \in 1..Len(front) : py_lt(x.name, front[i].name)}
             k == IF after = {} THEN Len(front) + 1
                  ELSE CHOOSE i \in after : \A j \in after : i <= j
         IN  SubSeq(front, 1, k - 1) \o <<x>> \o SubSeq(front, k, Len(front))

sorted_by_name(l) ==
    IF \E i, j \in 1..Len(l) : i # j /\ ~Comparable(l[i].name, l[j].name)
    THEN [raised |-> "TypeError", textbooks |-> <<>>]
    ELSE [raised |-> "", textbooks |-> stable_sort(l)]

\* an indices directory: whether it exists, and the three files of each
\* collection id
NoFiles == [config |-> Absent, index |-> Absent, pkl |-> Absent]

Files(dir, tid) ==
    IF dir.exists /\ tid \in DOMAIN dir.files THEN dir.files[tid] ELSE NoFiles

\* self.indices_dir.glob("*_config.json"): the ids whose config file exists
GlobIds(dir) ==
    IF dir.exists THEN {tid \in DOMAIN dir.files : dir.files[tid].config # Absent}
    ELSE {}

\* the orders in which the directory scan may yield them
GlobOrders(dir) ==
    {o \in SeqsUpTo(GlobIds(dir), Cardinality(GlobIds(dir))) :
        /\ Len(o) = Cardinality(GlobIds(dir))
        /\ \A i, j \in 1..Len(o) : i # j => o[i] # o[j]}

NO_DESCRIPTION == Str(<<"N", "o", " ", "d", "e", "s", "c", "r", "i", "p", "t", "i", "o", "n">>)

UNKNOWN == Str(<<"U", "n", "k", "n", "o", "w", "n">>)

\* lines 211-217: the summary of one collection
textbook_summary(tid, config) ==
    [id |-> Str(tid),
     name |-> dict_get(config, "textbook_name", Str(tid)),
     description |-> dict_get(config, "description", NO_DESCRIPTION),
     chunks |-> dict_get(config, "total_chunks", UNKNOWN),
     created |-> dict_get(config, "created_at", UNKNOWN)]

CONFIG_SUFFIX == <<"_", "c", "o", "n", "f", "i", "g">>

\* Path.stem of the file <tid>_config.json
config_stem(tid) == tid \o CONFIG_SUFFIX

\* str.replace(old, ""): every occurrence of old, found from the left
\* without overlap, is taken out
RECURSIVE str_remove(_, _)
str_remove(str, old) ==
    IF Len(str) < Len(old) THEN str
    ELSE IF SubSeq(str, 1, Len(old)) = old
    THEN str_remove(SubSeq(str, Len(old) + 1, Len(str)), old)
    ELSE <<Head(str)>> \o str_remove(Tail(str), old)

\* line 201: config_file.stem.replace("_config", "")
config_id(tid) == str_remove(config_stem(tid), CONFIG_SUFFIX)

\* lines 199-219: the loop over the config files in scan order; tid is the
\* id in the name of the config file, textbook_id the id line 201 makes of
\* it, under which the index and metadata files are looked up.  A config
\* that does not parse (json.load raises) is skipped; so is one that is not
\* an object (config.get raises AttributeError) when it is reached.
RECURSIVE scan_configs(_, _)
scan_configs(dir, order) ==
    IF order = <<>> THEN <<>>
    ELSE LET rest == scan_configs(dir, SubSeq(order, 1, Len(order) - 1))
             tid == order[Len(order)]
             textbook_id == config_id(tid)
             config == Files(dir, tid).config
             f == Files(dir, textbook_id)
         IN  IF config.tag # "file" THEN rest
             ELSE IF f.index = Absent \/ f.pkl = Absent THEN rest
             ELSE IF config.content.tag # "dict" THEN rest
             ELSE Append(rest, textbook_summary(textbook_id, config.content.d))

\* MultiTextbookSearcher.list_available_textbooks, the directory scan
\* yielding the config files in the given order
list_available_textbooks(dir, order) ==
    IF ~dir.exists THEN [raised |-> "", textbooks |-> <<>>]
    ELSE sorted_by_name(scan_configs(dir, order))

\* models SentenceTransformer can load
KnownModels == {DEFAULT_MODEL, OTHER_MODEL}

\* _load_model with a fault: the model the caller asked for is loaded
model_to_load_requested(config, requested_model) == requested_model

\* _load_model, lines 173-176: the model named in the config, the
\* caller's when the config names none
model_to_load(config, requested_model) == dict_get(config, "model_name", requested_model)

\* sys.exit(1) after the error was printed
Exited(error) == [tag |-> "exited", error |-> error]

\* lines 91-98, 116-123, 139-146: the file is missing.  The error is printed
\* with the available textbooks (as JSON in json mode, as text otherwise);
\* list_available_textbooks is called inside the try block, so when it
\* raises, the handler of the block prints its own error instead.
NotFound(error, failed, dir, order) ==
    LET listing == list_available_textbooks(dir, order)
    IN  IF listing.raised # "" THEN Exited(failed)
        ELSE [tag |-> "exited", error |-> error,
              available_textbooks |-> listing.textbooks]

\* MultiTextbookSearcher.__init__: _load_config, _load_index, _load_metadata
\* and _load_model in turn, each ending the process (sys.exit(1)) on failure.
\* model_name is self.model_name after _load_model, the name of the model in
\* self.model; requested_model keeps the constructor's argument, which line
\* 59 stores in self.model_name and line 176 may overwrite.
MultiTextbookSearcher(dir, tid, requested_model, order) ==
    LET f == Files(dir, tid)
    IN  IF f.config = Absent
        THEN NotFound("Config file not found", "Loading config failed", dir, order)
        ELSE IF f.config = Garbled \/ f.config.content.tag # "dict"
        THEN Exited("Loading config failed")
        ELSE IF f.index = Absent
        THEN NotFound("FAISS index not found", "Loading FAISS index failed", dir, order)
        ELSE IF f.index = Garbled
        THEN Exited("Loading FAISS index failed")
        ELSE IF f.pkl = Absent
        THEN NotFound("Metadata file not found", "Loading metadata failed", dir, order)
        ELSE IF f.pkl = Garbled
        THEN Exited("Loading metadata failed")
        ELSE IF f.pkl = NonList
        THEN Exited("Metadata must be a list")
        ELSE LET config == f.config.content.d
                 model == model_to_load(config, requested_model)
             IN  IF model \notin KnownModels
                 THEN Exited("Loading model failed")
                 ELSE [tag |-> "loaded",
                       textbook_id |-> tid,
                       config |-> config,
                       index |-> f.index.content,
                       metadata |-> f.pkl.content,
                       requested_model |-> requested_model,
                       model_name |-> model]

\* the directory that holds the files of the one collection
Directory(d) ==
    [exists |-> TRUE,
     files |-> (TEXTBOOK_ID :> [config |-> d.config, index |-> d.index, pkl |-> d.pkl])]

\* main, lines 580-587: the searcher of the collection is constructed
SearcherInit ==
    /\ ipc = "idle"
    /\ searcher = NoSearcher
    /\ \E order \in GlobOrders(Directory(disk)), requested_model \in RequestedModels :
         searcher' = MultiTextbookSearcher(Directory(disk), TEXTBOOK_ID,
                                           requested_model, order)
    /\ UNCHANGED <<last, disk, indexerVars>>
    /\ UNCHANGED <<synthVars, validateVars, registryVars, scoreVars, embedVars, threadVars>>

\* number of score units in 1: scores are rounded to 4 decimal digits
ScoreUnit == 10000

\* score with a fault: the part of 1 that the score leaves, 1 - 1 / (1 + distance)
score_complement(distance) ==
    LET den == Scale * Scale + distance
        num == ScoreUnit * Scale * Scale
    IN  IF den > 0 THEN ScoreUnit - DivRound(num, den) ELSE ScoreUnit + DivRound(num, -den)

\* round(1 / (1 + distance), 4), in score units, for 1 + distance # 0
\* (Python raises ZeroDivisionError when 1 + distance is 0)
score(distance) ==
    LET den == Scale * Scale + distance
        num == ScoreUnit * Scale * Scale
    IN  IF den > 0 THEN DivRound(num, den) ELSE -DivRound(num, -den)

\* round(distance, 4), in score units
round_distance(distance) == distance * (ScoreUnit \div (Scale * Scale))

NO_TEXT == Str(<<"N", "o", " ", "t", "e", "x", "t">>)

\* lines 315-330: the item of the result at the given rank
result_item(s, rank, result) ==
    LET metadata == result.metadata
        base == [rank |-> rank,
                 score |-> score(result.distance),
                 distance |-> round_distance(result.distance),
                 chunk_id |-> dict_get(metadata, "chunk_id", UNKNOWN),
                 content |-> dict_get(metadata, "text", NO_TEXT),
                 word_count |-> dict_get(metadata, "word_count", 0),
                 textbook_id |-> dict_get(metadata, "textbook_id", Str(s.textbook_id)),
                 textbook_name |-> dict_get(metadata, "textbook_name", Str(s.textbook_id))]
        extra == {"chapter", "section"} \cap DOMAIN metadata
    IN  [k \in DOMAIN base \cup extra |-> IF k \in extra THEN metadata[k] ELSE base[k]]

\* MultiTextbookSearcher.format_results_json
format_results_json(s, results, query) ==
    IF results = <<>>
    THEN [raised |-> "",
          response |-> [query |-> query,
                        textbook |-> [id |-> Str(s.textbook_id), name |-> textbook_name(s)],
                        total_results |-> 0,
                        results |-> <<>>,
                        message |-> "No relevant results found for your query."]]
    ELSE IF \E r \in 1..Len(results) : Scale * Scale + results[r].distance = 0
    THEN [raised |-> "ZeroDivisionError"]
    ELSE [raised |-> "",
          response |-> [query |-> query,
                        textbook |-> [id |-> Str(s.textbook_id), name |-> textbook_name(s)],
                        total_results |-> Len(results),
                        results |-> [r \in 1..Len(results) |->
                                        result_item(s, r, results[r])]]]

NotFormatted == [raised |-> "not called"]

\* one call of searcher.search(query, top_k) and, when it returns, of
\* searcher.format_results_json on its results (main, lines 600-604); model
\* is the name of the model in self.model, whose encode the search calls
Search ==
    /\ searcher.tag = "loaded"
    /\ \E query \in QueryTexts, top_k \in TopKs :
         LET out == search(searcher, query, top_k)
         IN  last' = [called |-> TRUE, query |-> query, top_k |-> top_k,
                      model |-> searcher.model_name,
                      out |-> out,
                      json |-> IF out.raised = ""
                               THEN format_results_json(searcher, out.results, query)
                               ELSE NotFormatted]
    /\ UNCHANGED <<searcher, disk, indexerVars>>
    /\ UNCHANGED <<synthVars, validateVars, registryVars, scoreVars, embedVars, threadVars>>

\* the searcher process is gone
SearcherExit ==
    /\ searcher # NoSearcher
    /\ searcher' = NoSearcher
    /\ last' = NoSearch
    /\ UNCHANGED <<disk, indexerVars>>
    /\ UNCHANGED <<synthVars, validateVars, registryVars, scoreVars, embedVars, threadVars>>

\* ------------------------------------------------------------------------
\* search_faiss.py: searches running at the same time on one searcher.
\* search in steps: a thread's locals are its own, self is shared.  A local
\* dict variable is a reference: to a dict of its own (value) or to the
\* entry of self.metadata at position `at` (alias).
\* ------------------------------------------------------------------------
Threads == 1..MaxThreads

\* the collection of a build of two chunks, loaded
SharedCollection ==
    [tag |-> "loaded",
     textbook_id |-> TEXTBOOK_ID,
     config |-> ConfigFull,
     index |-> create_faiss_index(generate_embeddings(<<ChunkA, ChunkB>>, 1), "flat"),
     metadata |-> create_metadata_mapping(<<ChunkA, ChunkB>>),
     requested_model |-> DEFAULT_MODEL,
     model_name |-> DEFAULT_MODEL]

NoDict == [alias |-> FALSE, at |-> 0, value |-> [k \in {} |-> None]]

ThreadIdle ==
    [pc |-> "idle", raised |-> "", hits |-> <<>>, pos |-> 1,
     metadata |-> NoDict, results |-> <<>>]

ThreadsIdle ==
    /\ shared = NoSearcher
    /\ threads = [t \in Threads |-> ThreadIdle]

ThreadsInit ==
    /\ shared = SharedCollection
    /\ threads = [t \in Threads |-> ThreadIdle]

\* one-based position of list[idx]
PyPos(list, idx) == IF idx >= 0 THEN idx + 1 ELSE Len(list) + idx + 1

\* self.metadata[idx] without the copy: the local names the stored entry
dict_alias(table, idx) ==
    [alias |-> TRUE, at |-> PyPos(table, idx), value |-> PyItem(table, idx)]

\* line 274, self.metadata[idx].copy(): a dict of the caller's own with
\* the keys and values of the stored entry
dict_copy(table, idx) ==
    [alias |-> FALSE, at |-> PyPos(table, idx), value |-> PyItem(table, idx)]

\* the dict a local names
deref(s, ref) == IF ref.alias THEN s.metadata[ref.at] ELSE ref.value

\* d[key] = val
setitem(d, key, val) ==
    [k \in DOMAIN d \cup {key} |-> IF k = key THEN val ELSE d[k]]

\* metadata[key] = val in thread t: the dict the local names is written
StoreItem(t, key, val, pc) ==
    IF threads[t].metadata.alias
    THEN /\ shared' = [shared EXCEPT !.metadata[threads[t].metadata.at]
                                        = setitem(@, key, val)]
         /\ threads' = [threads EXCEPT ![t].pc = pc]
    ELSE /\ threads' = [threads EXCEPT ![t].pc = pc,
                                       ![t].metadata.value = setitem(@, key, val)]
         /\ UNCHANGED shared

ThreadRaised(error) == [ThreadIdle EXCEPT !.pc = "done", !.raised = error]

\* lines 252-269: the argument checks, the clamp, encode and index.search
ThreadCall(t) ==
    /\ threads[t].pc = "idle"
    /\ \E query \in QueryTexts, top_k \in TopKs :
         LET k == Min(top_k, Len(shared.metadata))
             q == Encode(strip(query))
         IN  threads' = [threads EXCEPT ![t] =
                 IF strip(query) = <<>> \/ top_k <= 0
                 THEN ThreadRaised("ValueError")
                 ELSE IF k <= 0 \/ Len(q) # shared.index.d
                 THEN ThreadRaised("Exception")
                 ELSE [ThreadIdle EXCEPT !.pc = "loop",
                                         !.hits = index_search(shared.index, q, k)]]
    /\ UNCHANGED shared
    /\ UNCHANGED <<synthVars, validateVars, pipelineVars, registryVars, scoreVars,
                   embedVars>>

\* lines 272-274: the next pair; the entry of a position below len(metadata)
\* is copied
ThreadCopy(t) ==
    /\ threads[t].pc = "loop"
    /\ threads[t].pos <= Len(threads[t].hits)
    /\ LET h == threads[t].hits[threads[t].pos]
       IN  threads' = [threads EXCEPT ![t] =
               IF h.idx >= Len(shared.metadata)
               THEN [@ EXCEPT !.pos = @ + 1]
               ELSE IF h.idx < -Len(shared.metadata)
               THEN ThreadRaised("Exception")
               ELSE [@ EXCEPT !.pc = "set_id",
                              !.metadata = dict_copy(shared.metadata, h.idx)]]
    /\ UNCHANGED shared
    /\ UNCHANGED <<synthVars, validateVars, pipelineVars, registryVars, scoreVars,
                   embedVars>>

\* line 276: metadata['textbook_id'] = self.textbook_id
ThreadSetId(t) ==
    /\ threads[t].pc = "set_id"
    /\ StoreItem(t, "textbook_id", Str(shared.textbook_id), "set_name")
    /\ UNCHANGED <<synthVars, validateVars, pipelineVars, registryVars, scoreVars,
                   embedVars>>

\* line 277: metadata['textbook_name'] = self.config.get('textbook_name', ...)
ThreadSetName(t) ==
    /\ threads[t].pc = "set_name"
    /\ StoreItem(t, "textbook_name", textbook_name(shared), "append")
    /\ UNCHANGED <<synthVars, validateVars, pipelineVars, registryVars, scoreVars,
                   embedVars>>

\* line 278: results.append((float(distance), metadata))
ThreadAppend(t) ==
    /\ threads[t].pc = "append"
    /\ LET h == threads[t].hits[threads[t].pos]
       IN  threads' = [threads EXCEPT
               ![t].results = Append(@, [distance |-> h.distance,
                                         metadata |-> deref(shared, threads[t].metadata)]),
               ![t].metadata = NoDict,
               ![t].pos = @ + 1,
               ![t].pc = "loop"]
    /\ UNCHANGED shared
    /\ UNCHANGED <<synthVars, validateVars, pipelineVars, registryVars, scoreVars,
                   embedVars>>

\* line 280: return results
ThreadReturn(t) ==
    /\ threads[t].pc = "loop"
    /\ threads[t].pos > Len(threads[t].hits)
    /\ threads' = [threads EXCEPT ![t].pc = "done", ![t].hits = <<>>, ![t].pos = 1]
    /\ UNCHANGED shared
    /\ UNCHANGED <<synthVars, validateVars, pipelineVars, registryVars, scoreVars,
                   embedVars>>

\* the caller has the outcome; the thread may search again
ThreadDone(t) ==
    /\ threads[t].pc = "done"
    /\ threads' = [threads EXCEPT ![t] = ThreadIdle]
    /\ UNCHANGED shared
    /\ UNCHANGED <<synthVars, validateVars, pipelineVars, registryVars, scoreVars,
                   embedVars>>

\* ------------------------------------------------------------------------
\* search_faiss.py: commands on an indices directory
\* ------------------------------------------------------------------------
\* list_textbooks_command: textbook_id="dummy"
DUMMY == <<"d", "u", "m", "m", "y">>

RegistryIds == {DUMMY, TEXTBOOK_ID}

\* an id that contains "_config": dummy_config
DUMMY_CONFIG == DUMMY \o CONFIG_SUFFIX

DirectoryIds == RegistryIds \cup {DUMMY_CONFIG}

\* parsed contents of a config file that holds a JSON object
RegistryConfigs ==
    { ConfigFull,
      [textbook_name |-> Str(<<"A">>)],
      [textbook_name |-> None],
      [created_at |-> Str(<<"A">>)] }

ConfigStates == {Absent, Garbled, File(JsonArray)} \cup {File(Dict(c)) : c \in RegistryConfigs}

IndexStates == {Absent, Garbled, File(create_faiss_index(<<Encode(TextTen)>>, "flat"))}

PickleStates == {Absent, Garbled, NonList, File(create_metadata_mapping(<<ChunkA>>))}

NoDirectory == [exists |-> FALSE, files |-> [tid \in DirectoryIds |-> NoFiles]]

\* the three files of a complete collection
CompleteFiles ==
    [config |-> File(Dict(ConfigFull)),
     index |-> File(create_faiss_index(<<Encode(TextTen)>>, "flat")),
     pkl |-> File(create_metadata_mapping(<<ChunkA>>))]

\* the files of dummy and intro_ml in every state; dummy_config absent or
\* complete
Directories ==
    {NoDirectory} \cup
    {[exists |-> TRUE,
      files |-> [tid \in DirectoryIds |-> IF tid = DUMMY_CONFIG THEN g ELSE f[tid]]] :
        f \in [RegistryIds -> [config : ConfigStates, index : IndexStates,
                               pkl : PickleStates]],
        g \in {NoFiles, CompleteFiles}}

NoOutput == [cmd |-> "none"]

RegistryIdle ==
    /\ rdir = NoDirectory
    /\ rpc = "start"
    /\ rout = NoOutput

RegistryInit ==
    /\ rdir \in Directories
    /\ rpc = "start"
    /\ rout = NoOutput

\* list_textbooks_command, and main lines 559-562.  When the searcher of
\* "dummy" cannot be constructed the process has exited with status 1; a
\* TypeError of list_available_textbooks is caught nowhere (exit status 1).
list_textbooks_command(dir, order) ==
    LET s == MultiTextbookSearcher(dir, DUMMY, DEFAULT_MODEL, order)
        listing == list_available_textbooks(dir, order)
    IN  IF s.tag = "exited" THEN [status |-> 1, listed |-> FALSE, printed |-> s]
        ELSE IF listing.raised # ""
        THEN [status |-> 1, listed |-> FALSE, printed |-> Exited(listing.raised)]
        ELSE [status |-> 0, listed |-> TRUE, printed |-> listing.textbooks]

\* one call of list_available_textbooks
RegistryList ==
    /\ rpc = "start"
    /\ \E order \in GlobOrders(rdir) :
         rout' = [cmd |-> "list_available_textbooks", order |-> order,
                  listing |-> list_available_textbooks(rdir, order)]
    /\ rpc' = "done"
    /\ UNCHANGED rdir
    /\ UNCHANGED <<synthVars, validateVars, pipelineVars, scoreVars, embedVars, threadVars>>

\* python search_faiss.py --textbook <id> ...: the searcher is constructed
RegistryLoad ==
    /\ rpc = "start"
    /\ \E tid \in RegistryIds, order \in GlobOrders(rdir) :
         rout' = [cmd |-> "load", textbook_id |-> tid, order |-> order,
                  searcher |-> MultiTextbookSearcher(rdir, tid, DEFAULT_MODEL, order)]
    /\ rpc' = "done"
    /\ UNCHANGED rdir
    /\ UNCHANGED <<synthVars, validateVars, pipelineVars, scoreVars, embedVars, threadVars>>

\* python search_faiss.py --list-textbooks
RegistryListCommand ==
    /\ rpc = "start"
    /\ \E order \in GlobOrders(rdir) :
         rout' = [cmd |-> "list-textbooks", order |-> order,
                  result |-> list_textbooks_command(rdir, order)]
    /\ rpc' = "done"
    /\ UNCHANGED rdir
    /\ UNCHANGED <<synthVars, validateVars, pipelineVars, scoreVars, embedVars, threadVars>>

\* ------------------------------------------------------------------------
\* search_faiss.py: scores of two distances
\* ------------------------------------------------------------------------
\* non-negative distances, in fixed point (n stands for n / Scale^2)
ScoreDistances ==
    {0, 1, 2, 50, 100, 101, 300, 900, 10000, 999900, 1000000, 1000100, 99999900}

ScoreIdle ==
    /\ fpc = "input"
    /\ fin = <<0, 0>>
    /\ fout = <<0, 0>>

ScoreInit ==
    /\ fpc = "input"
    /\ fin \in ScoreDistances \X ScoreDistances
    /\ fout = <<0, 0>>

\* format_results_json, line 317, on each of the two distances
ScoreRun ==
    /\ fpc = "input"
    /\ fout' = <<score(fin[1]), score(fin[2])>>
    /\ fpc' = "output"
    /\ UNCHANGED fin
    /\ UNCHANGED <<synthVars, validateVars, pipelineVars, registryVars, embedVars, threadVars>>

\* ------------------------------------------------------------------------
\* Specifications
\* ------------------------------------------------------------------------
PipelineIdle ==
    /\ disk = [index |-> Absent, pkl |-> Absent, json |-> Absent, config |-> Absent]
    /\ IndexerIdle
    /\ searcher = NoSearcher
    /\ last = NoSearch

\* one answer-synthesis request
SynthSpecInit == SynthInit /\ ValidateIdle /\ PipelineIdle /\ RegistryIdle /\ ScoreIdle
                 /\ EmbedIdle /\ ThreadsIdle

SynthSpec == SynthSpecInit /\ [][SynthNext]_vars

\* every provider call returns or raises within its timeout (timeout=60), and
\* main runs on, so no enabled step of the request is postponed for ever
SynthLiveSpec == SynthSpec /\ WF_vars(SynthNext)

\* one call of validate_chunks
ValidateSpecInit == ValidateInit /\ SynthIdle /\ PipelineIdle /\ RegistryIdle /\ ScoreIdle
                 /\ EmbedIdle /\ ThreadsIdle

ValidateNext == ValidateRun

ValidateSpec == ValidateSpecInit /\ [][ValidateNext]_vars

\* one command on an indices directory of any content
RegistrySpecInit == RegistryInit /\ SynthIdle /\ ValidateIdle /\ PipelineIdle /\ ScoreIdle
                 /\ EmbedIdle /\ ThreadsIdle

RegistryNext ==
    \/ RegistryList
    \/ RegistryLoad
    \/ RegistryListCommand

RegistrySpec == RegistrySpecInit /\ [][RegistryNext]_vars

\* the scores of two distances
ScoreSpecInit == ScoreInit /\ SynthIdle /\ ValidateIdle /\ PipelineIdle /\ RegistryIdle
                 /\ EmbedIdle /\ ThreadsIdle

ScoreNext == ScoreRun

ScoreSpec == ScoreSpecInit /\ [][ScoreNext]_vars

\* one call of generate_embeddings
EmbedSpecInit == EmbedInit /\ SynthIdle /\ ValidateIdle /\ PipelineIdle /\ RegistryIdle
                 /\ ScoreIdle /\ ThreadsIdle

EmbedNext == EmbedRun

EmbedSpec == EmbedSpecInit /\ [][EmbedNext]_vars

\* searches of several threads on one loaded searcher, in any interleaving
ThreadSpecInit == ThreadsInit /\ SynthIdle /\ ValidateIdle /\ PipelineIdle /\ RegistryIdle
                  /\ ScoreIdle /\ EmbedIdle

ThreadNext ==
    \/ \E t \in Threads : ThreadCall(t)
    \/ \E t \in Threads : ThreadCopy(t)
    \/ \E t \in Threads : ThreadSetId(t)
    \/ \E t \in Threads : ThreadSetName(t)
    \/ \E t \in Threads : ThreadAppend(t)
    \/ \E t \in Threads : ThreadReturn(t)
    \/ \E t \in Threads : ThreadDone(t)

ThreadSpec == ThreadSpecInit /\ [][ThreadNext]_vars

Init == PipelineInit /\ SynthIdle /\ ValidateIdle /\ RegistryIdle /\ ScoreIdle
                 /\ EmbedIdle /\ ThreadsIdle

Next ==
    \/ IndexerStart
    \/ IndexerLoadRaises
    \/ IndexerBuild
    \/ IndexerBuildRaises
    \/ IndexerSaveIndex
    \/ IndexerSavePickle
    \/ IndexerSaveJson
    \/ IndexerExit
    \/ SearcherInit
    \/ Search
    \/ SearcherExit

\* indexer runs and searcher runs on the files of one collection
Spec == Init /\ [][Next]_vars

\* ------------------------------------------------------------------------
\* Properties of answer synthesis
\* ------------------------------------------------------------------------
Happened(ev) == \E i \in 1..Len(calls) : calls[i] = ev

Times(ev) == Cardinality({i \in 1..Len(calls) : calls[i] = ev})

Providers == {TOGETHER, OPENROUTER}

IsSuccessResponse(r) == "answer" \in DOMAIN r /\ "api_used" \in DOMAIN r

\* C1: once the Together.ai call has returned without error (whatever text it
\* returned, the empty text included), OpenRouter is never called and the
\* response names Together.ai as the provider used.
C1_FirstSuccessWins ==
    Happened(<<"return", TOGETHER>>) =>
        /\ ~Happened(<<"call", OPENROUTER>>)
        /\ spc = "done" =>
             /\ Len(stdout) = 1
             /\ IsSuccessResponse(stdout[1])
             /\ stdout[1].api_used = TOGETHER

\* C2: if both provider attempts raise, the one response is the structured
\* failure, its details hold exactly two entries, Together.ai's first and
\* OpenRouter's second, and it has no answer field.
C2_AllFailedDetails ==
    (spc = "done" /\ Happened(<<"raise", TOGETHER>>) /\ Happened(<<"raise", OPENROUTER>>)) =>
        /\ Len(stdout) = 1
        /\ LET r == stdout[1]
           IN  /\ "answer" \notin DOMAIN r
               /\ "details" \in DOMAIN r
               /\ r.error = "All LLM APIs failed"
               /\ Len(r.details) = 2
               /\ r.details[1][1] = "Together.ai failed"
               /\ r.details[1][2][1] = "Together.ai API error"
               /\ r.details[2][1] = "OpenRouter failed"
               /\ r.details[2][2][1] = "OpenRouter API error"

C2_Witness ==
    /\ spc = "done"
    /\ Happened(<<"raise", TOGETHER>>)
    /\ Happened(<<"raise", OPENROUTER>>)
    /\ Len(stdout) = 1

\* C3: if Together.ai raises and OpenRouter returns without error, the
\* response is a success response naming OpenRouter, carrying OpenRouter's
\* text and no details entry.
C3_FailoverSuccess ==
    (spc = "done" /\ Happened(<<"raise", TOGETHER>>) /\ Happened(<<"return", OPENROUTER>>)) =>
        /\ Len(stdout) = 1
        /\ LET r == stdout[1]
           IN  /\ IsSuccessResponse(r)
               /\ r.api_used = OPENROUTER
               /\ r.answer = answer.v
               /\ "details" \notin DOMAIN r

\* C4: each provider is called at most once in a request, and a call starts
\* only when no other call is outstanding: OpenRouter's call comes after the
\* end (return or raise) of Together.ai's.
C4_SingleSequentialAttempts ==
    /\ \A p \in Providers : Times(<<"call", p>>) <= 1
    /\ \A i \in 1..Len(calls) :
         calls[i][1] = "call" =>
            \A j \in 1..(i - 1) :
               calls[j][1] = "call" =>
                  \E k \in (j + 1)..(i - 1) :
                     calls[k][1] \in {"return", "raise"} /\ calls[k][2] = calls[j][2]
    /\ \A i \in 1..Len(calls) :
         calls[i] = <<"call", OPENROUTER>> =>
            \E j \in 1..(i - 1) :
               calls[j] \in {<<"return", TOGETHER>>, <<"raise", TOGETHER>>}

C4_Witness ==
    /\ spc = "done"
    /\ Happened(<<"call", TOGETHER>>)
    /\ Happened(<<"call", OPENROUTER>>)
    /\ Happened(<<"raise", OPENROUTER>>)

\* C5: every request ends: it reaches the terminal position with exit status
\* 0 (Succeeded) or 1 (Failed) and exactly one printed response, and at no
\* time have two responses been printed.
C5_OneResponseEventually ==
    /\ [](Len(stdout) <= 1)
    /\ <>[](spc = "done" /\ exit_code \in {0, 1} /\ Len(stdout) = 1)

C5_Witness ==
    /\ spc = "done"
    /\ Len(stdout) = 1
    /\ Happened(<<"return", OPENROUTER>>)
    /\ exit_code = 0

\* ------------------------------------------------------------------------
\* Properties of the index build
\* ------------------------------------------------------------------------
\* C6: once a build has built its index and its metadata mapping, both hold
\* as many entries as there are validated chunks, and a build that reports
\* success has written an index file and a metadata file of that one size.
C6_IndexAndMetadataSameSize ==
    /\ ipc \in {"built", "saved_index", "saved_pkl"} =>
          /\ ntotal(index) = Len(valid_chunks)
          /\ Len(metadata_mapping) = Len(valid_chunks)
    /\ (ipc = "exited" /\ iexit = 0) =>
          /\ ntotal(disk.index.content) = Len(valid_chunks)
          /\ Len(disk.pkl.content) = Len(valid_chunks)

C6_Witness ==
    /\ ipc = "exited"
    /\ iexit = 0
    /\ Len(valid_chunks) = 2
    /\ valid_chunks[1] = valid_chunks[2]
    /\ ntotal(disk.index.content) = 2

\* ------------------------------------------------------------------------
\* Properties of search
\* ------------------------------------------------------------------------
Returned == last.called /\ last.out.raised = ""

Distances == [r \in 1..Len(last.out.results) |-> last.out.results[r].distance]

\* C7: a search that returns, on a loaded collection of either metric,
\* returns at most min(k, collection size) results, and each result's
\* distance is at most the next one's.
C7_AtMostKAscending ==
    Returned =>
        /\ Len(last.out.results) <= Min(last.top_k, Len(searcher.metadata))
        /\ \A r \in 1..(Len(Distances) - 1) : Distances[r] <= Distances[r + 1]

\* C8: a search with a blank query or with top_k <= 0 raises the
\* invalid-argument error, has not used the embedding model or the index,
\* and returns no result.
C8_InvalidArgumentsRejectedFirst ==
    (last.called /\ (strip(last.query) = <<>> \/ last.top_k <= 0)) =>
        /\ last.out.raised = "ValueError"
        /\ ~last.out.encoded
        /\ ~last.out.searched
        /\ last.out.results = <<>>

C8_Witness ==
    /\ last.called
    /\ last.query # <<>>
    /\ strip(last.query) = <<>>
    /\ last.top_k <= 0
    /\ last.out.raised = "ValueError"

\* C9: a search with top_k above the collection size returns every entry of
\* the collection exactly once.
C9_ClampedReturnsAll ==
    (Returned /\ last.top_k > Len(searcher.metadata)) =>
        /\ Len(last.out.results) = Len(searcher.metadata)
        /\ \A i \in 0..(Len(searcher.metadata) - 1) :
              Cardinality({r \in 1..Len(last.out.results) :
                              last.out.results[r].metadata.faiss_id = i}) = 1

\* ------------------------------------------------------------------------
\* Properties of validate_chunks
\* ------------------------------------------------------------------------
HasNonEmptyId(chunk) ==
    /\ chunk.tag = "dict"
    /\ "id" \in DOMAIN chunk.d
    /\ chunk.d.id # None
    /\ chunk.d.id # Str(<<>>)

\* C10: every chunk validate_chunks returns has a non-empty id.
C10_ValidChunksHaveId ==
    vpc = "output" =>
        \A i \in 1..Len(vout.valid_chunks) : HasNonEmptyId(vout.valid_chunks[i])

\* whitespace normalization: the text trimmed, each run of whitespace inside
\* it collapsed to one space
RECURSIVE collapse(_)
collapse(t) ==
    IF t = <<>> THEN <<>>
    ELSE IF Head(t) \in Whitespace
         THEN IF Len(t) > 1 /\ t[2] \in Whitespace
              THEN collapse(Tail(t))
              ELSE <<" ">> \o collapse(Tail(t))
         ELSE <<Head(t)>> \o collapse(Tail(t))

NormalizedText(t) == collapse(strip(t))

\* C11: every chunk validate_chunks returns has a string text that, trimmed
\* and with its runs of whitespace collapsed to one space, is at least 10
\* characters long.
C11_ValidChunksNormalizedLength ==
    vpc = "output" =>
        \A i \in 1..Len(vout.valid_chunks) :
            LET chunk == vout.valid_chunks[i]
            IN  /\ chunk.tag = "dict"
                /\ "text" \in DOMAIN chunk.d
                /\ chunk.d.text.tag = "str"
                /\ Len(NormalizedText(chunk.d.text.v)) >= 10

\* ------------------------------------------------------------------------
\* Properties of the commands on an indices directory
\* ------------------------------------------------------------------------
\* absent, or present but not parseable
Unusable(file) == file = Absent \/ file = Garbled

\* the collections of a directory that have a readable config, an index file
\* and a metadata file
AvailableIds(dir) ==
    {tid \in RegistryIds :
        /\ dir.exists
        /\ dir.files[tid].config.tag = "file"
        /\ dir.files[tid].config.content.tag = "dict"
        /\ dir.files[tid].index # Absent
        /\ dir.files[tid].pkl # Absent}

ListedIds(textbooks) == {textbooks[i].id.v : i \in 1..Len(textbooks)}

\* no collection of the directory has an id that contains "_config" (C12,
\* C14 and C16 are stated for such directories; C27 is about the others)
PlainIds(dir) == \A tid \in DOMAIN dir.files \ RegistryIds : dir.files[tid] = NoFiles

\* C12: loading a collection whose config, index or metadata file is absent
\* or does not parse ends the load with an error that enumerates the ids of
\* the available collections.
C12_UnusableFilesNotFound ==
    (/\ rout.cmd = "load"
     /\ PlainIds(rdir)
     /\ \E k \in {"config", "index", "pkl"} :
           Unusable(Files(rdir, rout.textbook_id)[k])) =>
        /\ rout.searcher.tag = "exited"
        /\ "available_textbooks" \in DOMAIN rout.searcher
        /\ ListedIds(rout.searcher.available_textbooks) = AvailableIds(rdir)

\* a config file that does not parse, is not an object, or names the
\* collection with something that is not a string
BadConfig(dir, tid) ==
    LET config == Files(dir, tid).config
    IN  /\ config # Absent
        /\ \/ config.tag # "file"
           \/ config.content.tag # "dict"
           \/ dict_get(config.content.d, "textbook_name", Str(tid)).tag # "str"

\* C14: list_available_textbooks does not raise on a directory with one bad
\* collection: a collection whose config does not parse or is not an object
\* is left out, and every collection with a readable config, an index file
\* and a metadata file is in the list.
C14_ListSkipsBadCollections ==
    (rout.cmd = "list_available_textbooks"
        /\ PlainIds(rdir)
        /\ Cardinality({tid \in RegistryIds : BadConfig(rdir, tid)}) <= 1) =>
        /\ rout.listing.raised = ""
        /\ ListedIds(rout.listing.textbooks) = AvailableIds(rdir)

\* C15: the list is in display-name order, and it is the same list for
\* every order in which the directory scan may yield the config files.
C15_ListSortedAndDeterministic ==
    rout.cmd = "list_available_textbooks" =>
        /\ \A i \in 1..(Len(rout.listing.textbooks) - 1) :
              ~py_lt(rout.listing.textbooks[i + 1].name, rout.listing.textbooks[i].name)
        /\ \A order \in GlobOrders(rdir) :
              list_available_textbooks(rdir, order) = rout.listing

\* C16: the list-textbooks command ends with status 0 and prints the
\* available collections, whatever the directory holds.
C16_ListCommandSucceeds ==
    (rout.cmd = "list-textbooks" /\ PlainIds(rdir)) =>
        /\ rout.result.status = 0
        /\ rout.result.listed
        /\ ListedIds(rout.result.printed) = AvailableIds(rdir)

\* ------------------------------------------------------------------------
\* Properties of loading, building and scoring
\* ------------------------------------------------------------------------
\* C13: a searcher that was constructed holds a metadata table of as many
\* entries as its index holds vectors.
C13_LoadedSizesAgree ==
    searcher.tag = "loaded" => Len(searcher.metadata) = ntotal(searcher.index)

\* C17: after a build run that returned 0, the output location holds the
\* index file, the metadata file and the config file of the collection, and
\* the construction of a searcher for it succeeds.
C17_BuildOutputLoads ==
    (ipc = "exited" /\ iexit = 0) =>
        /\ disk.index.tag = "file"
        /\ disk.pkl.tag = "file"
        /\ disk.config.tag = "file"
        /\ \A order \in GlobOrders(Directory(disk)) :
              MultiTextbookSearcher(Directory(disk), TEXTBOOK_ID, DEFAULT_MODEL,
                                    order).tag = "loaded"

\* the collection was loaded with a metadata table that matches its index
Consistent == searcher.tag = "loaded" /\ Len(searcher.metadata) = ntotal(searcher.index)

\* the stored vector of a result
StoredVector(result) == searcher.index.xb[result.metadata.faiss_id + 1]

\* C18: on an inner-product collection the distance of every result is the
\* negative of the inner product of the unit-normalized query vector and the
\* stored vector, and the results come lowest distance first: a stored vector
\* anti-parallel to the query has distance +1 and is last.
C18_InnerProductDistanceIsNegated ==
    (Returned /\ Consistent /\ searcher.index.metric = "IP") =>
        /\ \A r \in 1..Len(last.out.results) :
              last.out.results[r].distance =
                 -Dot(normalize_L2(Encode(strip(last.query))),
                      StoredVector(last.out.results[r]))
        /\ \A r \in 1..(Len(Distances) - 1) : Distances[r] <= Distances[r + 1]

\* C19: every result of a search has a non-negative distance, formatting the
\* results does not raise, and every reported score is above 0 and at most 1.
C19_ScoreWithinUnitInterval ==
    Returned =>
        /\ \A r \in 1..Len(last.out.results) : last.out.results[r].distance >= 0
        /\ last.json.raised = ""
        /\ \A r \in 1..Len(last.out.results) :
              /\ last.json.response.results[r].score > 0
              /\ last.json.response.results[r].score <= ScoreUnit

\* C20 as stated: of two non-negative distances, the smaller one is
\* reported with the strictly greater score.
C20_ScoreStrictlyMonotone ==
    (fpc = "output" /\ fin[1] < fin[2]) => fout[1] > fout[2]

\* C20: of two non-negative distances, the smaller one is reported with a
\* score that is greater than or equal to the other's (rounding to 4 decimal
\* digits can make the two scores equal), and every score is between 0 and 1.
C20_ScoreMonotone ==
    (fpc = "output" /\ fin[1] < fin[2]) =>
        /\ fout[1] >= fout[2]
        /\ fout[1] <= ScoreUnit
        /\ fout[2] >= 0

C20_Witness ==
    /\ fpc = "output"
    /\ fin[1] < fin[2]
    /\ fout[1] = fout[2]
    /\ fout[1] > 0

\* ------------------------------------------------------------------------
\* Retrieval without results
\* ------------------------------------------------------------------------
\* a call of search with arguments it accepts
Accepted == last.called /\ strip(last.query) # <<>> /\ last.top_k > 0

\* C21: a query with accepted arguments that yields no result, on a loaded
\* collection of any size (zero entries included), is answered by the JSON
\* response with total_results 0, an empty results list and a message, and
\* no error is raised.
C21_NoResultsIsNotAnError ==
    (Accepted /\ last.out.results = <<>>) =>
        /\ last.out.raised = ""
        /\ last.json.raised = ""
        /\ last.json.response.total_results = 0
        /\ last.json.response.results = <<>>
        /\ "message" \in DOMAIN last.json.response

\* the part of C21 that holds: a search that returns an empty list
C21_EmptyListResponse ==
    (Returned /\ last.out.results = <<>>) =>
        /\ last.json.raised = ""
        /\ last.json.response.total_results = 0
        /\ last.json.response.results = <<>>
        /\ "message" \in DOMAIN last.json.response

C21_EmptyListReached == Returned /\ last.out.results = <<>>

\* ------------------------------------------------------------------------
\* The embedding model of a collection
\* ------------------------------------------------------------------------
\* every file of the collection is present and parses
Loadable ==
    /\ disk.config.tag = "file" /\ disk.config.content.tag = "dict"
    /\ disk.index.tag = "file"
    /\ disk.pkl.tag = "file"

\* C22: the model of a loaded collection is the one its config names,
\* whichever model the caller asked for; every query is encoded with it; and
\* a collection whose files load is loaded whichever model the caller asked
\* for.
C22_ConfiguredModelIsUsed ==
    /\ searcher.tag = "loaded" =>
          /\ "model_name" \in DOMAIN searcher.config
          /\ searcher.model_name = searcher.config.model_name
          /\ last.called => last.model = searcher.config.model_name
    /\ ~(searcher.tag = "exited" /\ Loadable)

C22_Witness ==
    /\ searcher.tag = "loaded"
    /\ searcher.requested_model # searcher.config.model_name
    /\ last.called
    /\ last.out.raised = ""
    /\ last.out.results # <<>>

\* ------------------------------------------------------------------------
\* Positions without a metadata entry
\* ------------------------------------------------------------------------
\* the (distance, position) pairs the index returned to the last search
LastHits ==
    index_search(searcher.index, Encode(strip(last.query)),
                 Min(last.top_k, Len(searcher.metadata)))

ValidPosition(h) == h.idx >= 0 /\ h.idx < Len(searcher.metadata)

\* C23: a search whose arguments are accepted, on a collection with at least
\* one metadata entry, does not fail, and its results are those of the
\* returned pairs whose position is in 0..len(metadata)-1, in order: a pair
\* with any other position (the -1 of a missing neighbour included) gives no
\* result.
C23_InvalidPositionsOmitted ==
    (Accepted /\ Len(searcher.metadata) >= 1) =>
        /\ last.out.raised = ""
        /\ LET valid == SelectSeq(LastHits, ValidPosition)
           IN  /\ Len(last.out.results) = Len(valid)
               /\ \A r \in 1..Len(valid) :
                     /\ last.out.results[r].distance = valid[r].distance
                     /\ last.out.results[r].metadata
                            = result_metadata(searcher, valid[r].idx)

\* the part of C23 that holds: a position at or above len(metadata) is omitted
C23_LargePositionsOmitted ==
    Returned =>
        LET kept == SelectSeq(LastHits, LAMBDA h : h.idx < Len(searcher.metadata))
        IN  /\ Len(last.out.results) = Len(kept)
            /\ \A r \in 1..Len(kept) :
                  last.out.results[r].metadata = result_metadata(searcher, kept[r].idx)

\* ------------------------------------------------------------------------
\* Searches leave the collection alone
\* ------------------------------------------------------------------------
\* C24: whatever the threads searching on one searcher have done so far, in
\* any interleaving, the searcher's metadata entries, index and config are
\* those it had after loading; the collection id and the display name are
\* in the entries of the results only.
C24_SearchLeavesCollectionUnchanged ==
    /\ shared = SharedCollection
    /\ \A t \in Threads : \A r \in 1..Len(threads[t].results) :
          LET metadata == threads[t].results[r].metadata
              stored == shared.metadata[metadata.faiss_id + 1]
          IN  /\ DOMAIN metadata = DOMAIN stored \cup {"textbook_id", "textbook_name"}
              /\ \A k \in DOMAIN stored : metadata[k] = stored[k]
              /\ metadata.textbook_id = Str(shared.textbook_id)
              /\ metadata.textbook_name = textbook_name(shared)

\* two searches at work on the same entry, one of them with a result already
C24_Witness ==
    \E t, u \in Threads :
        /\ t # u
        /\ threads[t].pc = "append"
        /\ threads[u].pc = "set_name"
        /\ threads[t].metadata.at = threads[u].metadata.at
        /\ threads[t].results # <<>>

\* ------------------------------------------------------------------------
\* A build without valid chunks
\* ------------------------------------------------------------------------
\* C25: a build run whose validation leaves no valid chunk ends at once with
\* status 1: it has no embeddings, no index and no metadata mapping, and the
\* files are what they were before the run; no later position of the run
\* is reached without a valid chunk.
C25_NoValidChunksNothingDone ==
    /\ [](ipc \in {"validated", "built", "saved_index", "saved_pkl"}
            => valid_chunks # <<>>)
    /\ [][(ipc = "idle" /\ ipc' # "idle" /\ valid_chunks' = <<>>) =>
            /\ ipc' = "exited"
            /\ iexit' = 1
            /\ embeddings' = <<>>
            /\ index' = None
            /\ metadata_mapping' = <<>>
            /\ disk' = disk]_vars

\* such a run has ended; the files are those of an earlier run
C25_Witness ==
    /\ ipc = "exited"
    /\ iexit = 1
    /\ valid_chunks = <<>>
    /\ disk.index.tag = "file"
    /\ disk.json.tag = "file"

\* ------------------------------------------------------------------------
\* Embeddings in input order
\* ------------------------------------------------------------------------
\* the rows are the embeddings of the chunks' texts, one per chunk, in order
RowsInOrder ==
    /\ eout.raised = ""
    /\ Len(eout.rows) = Len(ein.chunks)
    /\ \A i \in 1..Len(ein.chunks) : eout.rows[i] = Encode(ein.chunks[i].d.text.v)

\* C26 as stated: for every chunk list, the empty one included, and every
\* batch size >= 1, generate_embeddings returns one row per chunk, row i the
\* embedding of chunk i's text.
C26_RowsInOrderEveryList == epc = "output" => RowsInOrder

\* C26, for chunk lists that are not empty: generate_embeddings returns one
\* row per chunk, row i the embedding of chunk i's text, and so the same
\* rows for every batch size >= 1; for the empty list it raises.
C26_RowsInOrder ==
    epc = "output" =>
        IF ein.chunks = <<>>
        THEN eout.raised = "ValueError"
        ELSE /\ RowsInOrder
             /\ \A b \in EmbedBatchSizes : generate_embeddings(ein.chunks, b) = eout.rows

\* three chunks of different texts in batches of two: the last batch is short
C26_Witness ==
    /\ epc = "output"
    /\ Len(ein.chunks) = 3
    /\ ein.batch_size = 2
    /\ ein.chunks[1] # ein.chunks[2]
    /\ ein.chunks[2] # ein.chunks[3]
    /\ eout.rows = <<Encode(ein.chunks[1].d.text.v), Encode(ein.chunks[2].d.text.v),
                     Encode(ein.chunks[3].d.text.v)>>

\* ------------------------------------------------------------------------
\* Collection ids in the list
\* ------------------------------------------------------------------------
\* the collections of a directory, of any id, that have a readable config,
\* an index file and a metadata file
CompleteIds(dir) ==
    {tid \in DOMAIN dir.files :
        /\ dir.exists
        /\ dir.files[tid].config.tag = "file"
        /\ dir.files[tid].config.content.tag = "dict"
        /\ dir.files[tid].index # Absent
        /\ dir.files[tid].pkl # Absent}

\* C27: a list that list_available_textbooks returns has every collection
\* with a readable config, an index file and a metadata file in it, under
\* its own id, whatever the id (an id that contains "_config" included).
C27_EveryCompleteIdListed ==
    (rout.cmd = "list_available_textbooks" /\ rout.listing.raised = "") =>
        CompleteIds(rdir) \subseteq ListedIds(rout.listing.textbooks)

\* the part of C27 that holds: ids without "_config"
C27_PlainIdsListed ==
    (rout.cmd = "list_available_textbooks" /\ rout.listing.raised = "") =>
        (CompleteIds(rdir) \cap RegistryIds) \subseteq ListedIds(rout.listing.textbooks)

\* ------------------------------------------------------------------------
\* Chapter and section
\* ------------------------------------------------------------------------
\* C28: in the response to a search on a collection whose index and
\* metadata agree in size, the result item of a chunk (known by its id and
\* text) carries the chapter and the section the chunk had when the
\* collection was built.
C28_ChapterAndSectionSurvive ==
    (Returned /\ Consistent /\ last.json.raised = "") =>
        \A r \in 1..Len(last.json.response.results) : \A chunk \in InputChunks :
            LET item == last.json.response.results[r]
            IN  (item.chunk_id = chunk.d.id /\ item.content = chunk.d.text) =>
                    \A k \in {"chapter", "section"} \cap DOMAIN chunk.d :
                        k \in DOMAIN item /\ item[k] = chunk.d[k]

\* ------------------------------------------------------------------------
\* Invalid synthesis requests
\* ------------------------------------------------------------------------
\* fewer than two arguments, a query that is empty after trimming, or no
\* excerpt that is non-empty after trimming
InvalidRequest ==
    \/ Len(argv) < 2
    \/ strip(argv[1]) = <<>>
    \/ \A i \in 2..Len(argv) : strip(argv[i]) = <<>>

\* C29: for an invalid request no provider is ever called, and the request
\* ends at once with exit status 1 and one error object of the three
\* argument errors on stdout.
C29_InvalidRequestRejected ==
    InvalidRequest =>
        /\ calls = <<>>
        /\ spc \in {"start", "done"}
        /\ spc = "done" =>
              /\ exit_code = 1
              /\ Len(stdout) = 1
              /\ "error" \in DOMAIN stdout[1]
              /\ stdout[1].error \in {"Insufficient arguments", "Empty query provided",
                                       "No valid content chunks provided"}

\* a request with a query and excerpts that are all blank has been refused
C29_Witness ==
    /\ spc = "done"
    /\ Len(argv) = 3
    /\ strip(argv[1]) # <<>>
    /\ argv[2] # <<>>
    /\ strip(argv[2]) = <<>>
    /\ strip(argv[3]) = <<>>
    /\ stdout = <<NoValidChunks>>
    /\ calls = <<>>

\* ------------------------------------------------------------------------
\* The files a failed build leaves
\* ------------------------------------------------------------------------
\* the metadata file is that of the index file: one entry per vector, and
\* the vector at each position is the one stored for the entry's text
MatchingMetadata ==
    /\ disk.pkl.tag = "file"
    /\ Len(disk.pkl.content) = ntotal(disk.index.content)
    /\ \A i \in 1..Len(disk.pkl.content) :
          disk.index.content.xb[i]
              = IF disk.index.content.metric = "L2"
                THEN Encode(disk.pkl.content[i].text.v)
                ELSE normalize_L2(Encode(disk.pkl.content[i].text.v))

\* C30: when a build run has reported failure, the output location holds
\* no index file without its matching metadata file.
C30_FailedBuildLeavesNoLoneIndex ==
    (ipc = "exited" /\ iexit = 1 /\ disk.index.tag = "file") => MatchingMetadata

\* what holds instead: a build run that has reported success leaves an
\* index file with its matching metadata file
C30_SucceededBuildLeavesBoth ==
    (ipc = "exited" /\ iexit = 0) => (disk.index.tag = "file" /\ MatchingMetadata)

============================================================================
